---- MODULE Spec2Model ----
(***************************************************************************)
(* Model of pages/3_Reconciliation.py: the line parser parse_docai_text,   *)
(* the alias table (load_bank_mapping / add_unknowns_to_sheet) and the     *)
(* reconciliation run of the page script (upload, load, translate, match,  *)
(* display).                                                               *)
(*                                                                         *)
(* Text is modelled as sequences of characters (one-character strings), so *)
(* that strip, replace, isdigit, int, split/join, lower and the substring  *)
(* test are computed, not assumed.  The characters outside ASCII that the  *)
(* source names are written with ASCII names: "yen" is the yen sign, and   *)
(* "RAKU", "TEN", "GIN", "KOU" are the four kanji of the bank's name.      *)
(***************************************************************************)
EXTENDS Integers, Sequences, FiniteSets, TLC

VARIABLES
    pc,              \* position of the page script
    line,            \* parse_docai_text: the line of the current iteration
    nlines,          \* parse_docai_text: lines consumed so far
    transactions,    \* parse_docai_text: the local list `transactions`
    bank_df,         \* the extracted transactions (rows of bank_df)
    sheet_rows,      \* worksheet "Bank Mapping": its rows, the header first
    sys_df,          \* sheet1 as read by get_all_records
    paid_invoices,   \* sys_df filtered to Status == "Paid"
    mapping_dict,    \* the dict load_bank_mapping returned, in insertion order
    idx,             \* match loop: number of rows of bank_df consumed
    trans_name,      \* match loop: the name the last row was translated to
    matches,         \* result list `matches`
    unmatched_bank,  \* result list `unmatched_bank`
    unknown_names,   \* the set `unknown_names`
    button,          \* what st.button("Auto-Add Unknowns") returned
    append_ok,       \* what add_unknowns_to_sheet returned ("none" before)
    ui               \* the messages shown to the operator, in order

vars == <<pc, line, nlines, transactions, bank_df, sheet_rows, sys_df,
          paid_invoices, mapping_dict, idx, trans_name, matches,
          unmatched_bank, unknown_names, button, append_ok, ui>>

parseVars == <<line, nlines, transactions>>
runVars   == <<sys_df, paid_invoices, mapping_dict, idx, trans_name, matches,
               unmatched_bank, unknown_names, button, append_ok>>

----------------------------------------------------------------------------
(* Bounds of the model.                                                    *)

MaxLines == 2      \* lines of the OCR text
MaxParts == 3      \* whitespace-separated tokens after the date of a line
MaxRows == 3       \* rows of the alias sheet when only resolution is checked
MaxInitRows == 1   \* rows of the alias sheet before a reconciliation run
MaxLedger == 1     \* records of the ledger sheet
MaxTx == 2         \* rows of bank_df in a reconciliation run

----------------------------------------------------------------------------
(* Strings as sequences of characters.                                     *)

Digits == {"0", "1", "2", "3", "4", "5", "6", "7", "8", "9"}

DigitVal(c) ==
    CASE c = "0" -> 0 [] c = "1" -> 1 [] c = "2" -> 2 [] c = "3" -> 3
      [] c = "4" -> 4 [] c = "5" -> 5 [] c = "6" -> 6 [] c = "7" -> 7
      [] c = "8" -> 8 [] c = "9" -> 9

\* str.replace(c, ''): every occurrence of the character is removed
RECURSIVE Remove(_, _)
Remove(s, c) ==
    IF s = <<>> THEN <<>>
    ELSE IF Head(s) = c THEN Remove(Tail(s), c)
         ELSE <<Head(s)>> \o Remove(Tail(s), c)

\* str.isdigit(): non-empty and every character a digit
IsDigit(s) == s # <<>> /\ \A i \in 1..Len(s) : s[i] \in Digits

\* value of a non-empty string of digits
RECURSIVE DigitsVal(_)
DigitsVal(s) ==
    IF s = <<>> THEN 0
    ELSE 10 * DigitsVal(SubSeq(s, 1, Len(s) - 1)) + DigitVal(s[Len(s)])

\* int(s) raises ValueError unless s is an optional sign followed by digits
IntRaises(s) ==
    ~ (IsDigit(s) \/ (s # <<>> /\ Head(s) = "-" /\ IsDigit(Tail(s))))

IntOf(s) == IF Head(s) = "-" THEN 0 - DigitsVal(Tail(s)) ELSE DigitsVal(s)

\* str.strip(): leading and trailing whitespace removed
RECURSIVE LStrip(_)
LStrip(s) == IF s # <<>> /\ Head(s) = " " THEN LStrip(Tail(s)) ELSE s

RECURSIVE RStrip(_)
RStrip(s) ==
    IF s # <<>> /\ s[Len(s)] = " " THEN RStrip(SubSeq(s, 1, Len(s) - 1)) ELSE s

Strip(s) == RStrip(LStrip(s))

\* k in s: k occurs in s as a contiguous substring (the empty string always)
IsSubstring(k, s) ==
    \E i \in 0..(Len(s) - Len(k)) : SubSeq(s, i + 1, i + Len(k)) = k

\* str.lower() on the letters the model uses
LowerChar(c) ==
    CASE c = "B" -> "b" [] c = "R" -> "r" [] c = "A" -> "a" [] OTHER -> c

Lower(s) == [i \in 1..Len(s) |-> LowerChar(s[i])]

\* " ".join(tokens)
RECURSIVE Join(_)
Join(tokens) ==
    IF tokens = <<>> THEN <<>>
    ELSE IF Len(tokens) = 1 THEN tokens[1]
         ELSE tokens[1] \o <<" ">> \o Join(Tail(tokens))

\* all sequences over S of length at most n
SeqsUpTo(S, n) == UNION {[1..k -> S] : k \in 0..n}

----------------------------------------------------------------------------
(* parse_docai_text.                                                       *)

Yen == "yen"
Backslash == "\\"

\* tokens a line may hold after its date
Tokens ==
    { <<"7">>,                   \* a number
      <<"0">>,                   \* zero
      <<"-", "5">>,              \* a negative number
      <<Yen, "1", ",", "0">>,    \* currency glyph and thousands separator
      <<"1", "-", "2">>,         \* passes the numeric test, int() raises
      <<"a", "b">>,              \* a vendor word
      <<"B", "a", "n", "k">>     \* a watermark word
    }

NoDate == "none"
Dates == {"2025/11/04"}

\* A line after lines 49-72: the date the pattern found (NoDate when the line
\* is empty or holds no date) and the tokens of the text after that date
\* (the tokens of a line without a date are never looked at).
Lines ==
    { [date |-> d, parts |-> p] :
        d \in Dates, p \in SeqsUpTo(Tokens, MaxParts) }
    \cup { [date |-> NoDate, parts |-> p] : p \in SeqsUpTo(Tokens, 1) }

NoLine == [date |-> NoDate, parts |-> <<>>]

\* line 81
Clean(token) == Remove(Remove(Remove(token, ","), Yen), Backslash)

\* line 84
LooksNumeric(clean) == IsDigit(Remove(clean, "-"))

\* mutant of ScanTokens: the test of line 93 is lost, the scan breaks at the
\* first token that is not numeric
RECURSIVE ScanTokens_BreakAtWord(_, _, _, _)
ScanTokens_BreakAtWord(parts, i, numeric_values, valid_indices) ==
    IF i = 0
    THEN [raised |-> FALSE, numeric_values |-> numeric_values,
          valid_indices |-> valid_indices]
    ELSE LET clean == Clean(parts[i]) IN
         IF LooksNumeric(clean)
         THEN IF IntRaises(clean)
              THEN [raised |-> TRUE, numeric_values |-> numeric_values,
                    valid_indices |-> valid_indices]
              ELSE ScanTokens_BreakAtWord(parts, i - 1,
                                          Append(numeric_values, IntOf(clean)),
                                          Append(valid_indices, i))
         ELSE [raised |-> FALSE, numeric_values |-> numeric_values,
               valid_indices |-> valid_indices]

\* lines 78-94: the scan from the last token backwards.  i is the 1-based
\* index of the token to look at; the result holds numeric_values and
\* valid_indices in the order they were appended, and whether int() raised.
RECURSIVE ScanTokens(_, _, _, _)
ScanTokens(parts, i, numeric_values, valid_indices) ==
    IF i = 0
    THEN [raised |-> FALSE, numeric_values |-> numeric_values,
          valid_indices |-> valid_indices]
    ELSE LET clean == Clean(parts[i]) IN
         IF LooksNumeric(clean)
         THEN IF IntRaises(clean)
              THEN [raised |-> TRUE, numeric_values |-> numeric_values,
                    valid_indices |-> valid_indices]
              ELSE ScanTokens(parts, i - 1,
                              Append(numeric_values, IntOf(clean)),
                              Append(valid_indices, i))
         ELSE IF Len(numeric_values) >= 2
              THEN [raised |-> FALSE, numeric_values |-> numeric_values,
                    valid_indices |-> valid_indices]
              ELSE ScanTokens(parts, i - 1, numeric_values, valid_indices)

\* line 138
NoiseWords ==
    { <<"r", "a", "k", "u", "t", "e", "n">>, <<"b", "a", "n", "k">>,
      <<"RAKU", "TEN">>, <<"GIN", "KOU">>, <<"TEN", "GIN", "KOU">>, <<"KOU">> }

\* lines 135-141
RECURSIVE DropNoise(_)
DropNoise(tokens) ==
    IF tokens = <<>> THEN <<>>
    ELSE IF Lower(Head(tokens)) \in NoiseWords
         THEN DropNoise(Tail(tokens))
         ELSE <<Head(tokens)>> \o DropNoise(Tail(tokens))

\* line 110: the second value collected, the one left of the balance
TargetAmount(numeric_values) == numeric_values[2]

\* mutant of IsWithdrawal: ">=" written for ">"
IsWithdrawal_NonNegative(target_amount) == target_amount >= 0

\* line 116
IsWithdrawal(target_amount) == target_amount > 0

\* line 129: the index appended last is the leftmost numeric token
FirstNumberIndex(valid_indices) == valid_indices[Len(valid_indices)]

\* lines 48-149: one iteration of the loop over the lines.  kind is "raise"
\* when the iteration ends with an uncaught ValueError, "emit" when it appends
\* the transaction tx, "skip" otherwise.
ParseLine(l) ==
    IF l.date = NoDate
    THEN [kind |-> "skip"]
    ELSE LET scan == ScanTokens(l.parts, Len(l.parts), <<>>, <<>>)
             nv == scan.numeric_values
             vi == scan.valid_indices
         IN  IF scan.raised THEN [kind |-> "raise"]
             ELSE IF Len(nv) < 2 THEN [kind |-> "skip"]
             ELSE IF ~ IsWithdrawal(TargetAmount(nv)) THEN [kind |-> "skip"]
             ELSE LET first_number_index == FirstNumberIndex(vi)
                      desc_tokens == SubSeq(l.parts, 1, first_number_index - 1)
                      vendor_name == Join(DropNoise(desc_tokens))
                  IN  IF vendor_name = <<>> THEN [kind |-> "skip"]
                      ELSE [kind |-> "emit",
                            tx |-> [Date |-> l.date,
                                    Desc |-> vendor_name,
                                    Amount |-> TargetAmount(nv)]]

----------------------------------------------------------------------------
(* The upload handler (lines 200-217) around parse_docai_text.             *)

Say(msg) == Append(ui, msg)

\* line 205: get_text_from_docai returns the text
DocAIReturns ==
    /\ pc = "upload"
    /\ pc' = "parsing"
    /\ UNCHANGED <<parseVars, bank_df, sheet_rows, runVars, ui>>

\* line 205: get_text_from_docai raises (the service call fails)
DocAIRaises ==
    /\ pc = "upload"
    /\ pc' = "raised"
    /\ UNCHANGED <<parseVars, bank_df, sheet_rows, runVars, ui>>

\* lines 48-149: the loop body on the next line of the text
ForLine ==
    /\ pc = "parsing"
    /\ nlines < MaxLines
    /\ \E l \in Lines :
         LET r == ParseLine(l) IN
         /\ line' = l
         /\ nlines' = nlines + 1
         /\ pc' = IF r.kind = "raise" THEN "raised" ELSE "line_done"
         /\ transactions' =
              IF r.kind = "emit" THEN Append(transactions, r.tx)
              ELSE transactions
    /\ UNCHANGED <<bank_df, sheet_rows, runVars, ui>>

\* line 48: back to the head of the loop; the loop variable is dead until the
\* next iteration assigns it
LoopBack ==
    /\ pc = "line_done"
    /\ pc' = "parsing"
    /\ line' = NoLine
    /\ UNCHANGED <<nlines, transactions, bank_df, sheet_rows, runVars, ui>>

\* line 151 and the assignment of line 206: the text has no further line
ReturnDataFrame ==
    /\ pc = "parsing"
    /\ bank_df' = transactions
    /\ pc' = "parsed"
    /\ UNCHANGED <<parseVars, sheet_rows, runVars, ui>>

\* lines 207-209: except Exception: st.error, st.stop
UploadExcept ==
    /\ pc = "raised"
    /\ ui' = Say("error: Google AI Failed")
    /\ pc' = "stopped"
    /\ UNCHANGED <<parseVars, bank_df, sheet_rows, runVars>>

\* lines 211-215: bank_df.empty
NothingExtracted ==
    /\ pc = "parsed"
    /\ bank_df = <<>>
    /\ ui' = Say("error: could not extract valid transactions")
    /\ pc' = "stopped"
    /\ UNCHANGED <<parseVars, bank_df, sheet_rows, runVars>>

\* line 217
Extracted ==
    /\ pc = "parsed"
    /\ bank_df # <<>>
    /\ ui' = Say("success: extracted")
    /\ pc' = "load_system"
    /\ UNCHANGED <<parseVars, bank_df, sheet_rows, runVars>>

RunInit ==
    /\ sys_df = <<>>
    /\ paid_invoices = <<>>
    /\ mapping_dict = <<>>
    /\ idx = 0
    /\ trans_name = <<>>
    /\ matches = <<>>
    /\ unmatched_bank = <<>>
    /\ unknown_names = {}
    /\ button = FALSE
    /\ append_ok = "none"

\* A PDF has been uploaded; the alias sheet plays no part in the extraction.
InitParse ==
    /\ pc = "upload"
    /\ line = NoLine
    /\ nlines = 0
    /\ transactions = <<>>
    /\ bank_df = <<>>
    /\ sheet_rows = <<>>
    /\ ui = <<>>
    /\ RunInit

NextParse ==
    \/ DocAIReturns
    \/ DocAIRaises
    \/ ForLine
    \/ LoopBack
    \/ ReturnDataFrame
    \/ UploadExcept
    \/ NothingExtracted
    \/ Extracted

SpecParse == InitParse /\ [][NextParse]_vars

----------------------------------------------------------------------------
(* The alias table: worksheet "Bank Mapping".                              *)

Unknown == <<"U", "n", "k", "n", "o", "w", "n">>
VendorV == <<"V">>

\* cells of the first and of the second column, as get_all_values returns them
KeyCells == { <<>>, <<" ", "a">>, <<"b">>, <<"a", "b">> }
NameCells == { <<>>, <<"V", " ">> }

\* rows of the worksheet: two cells, or one when the sheet has one column
Rows == { <<k, n>> : k \in KeyCells, n \in NameCells } \cup { << <<"b">> >> }

HeaderRow == << <<"B", "a", "n", "k">>, <<"N", "a", "m", "e">> >>

\* the worksheet with no row at all, or a header row and up to n rows
Sheets(n) == { <<>> } \cup { <<HeaderRow>> \o r : r \in SeqsUpTo(Rows, n) }

\* a dict as the sequence of its items in insertion order
DictHas(d, k) == \E i \in 1..Len(d) : d[i].k = k
DictGet(d, k) == d[CHOOSE i \in 1..Len(d) : d[i].k = k].v

\* mutant of DictSet: an overwritten key moves to the end
DictSet_MoveToEnd(d, k, v) ==
    Append(SelectSeq(d, LAMBDA item : item.k # k), [k |-> k, v |-> v])

\* d[k] = v: a new key is inserted last, an old key keeps its place
DictSet(d, k, v) ==
    IF DictHas(d, k)
    THEN [i \in 1..Len(d) |-> IF d[i].k = k THEN [k |-> k, v |-> v] ELSE d[i]]
    ELSE Append(d, [k |-> k, v |-> v])

\* lines 161-165: the loop over records[1:]
RECURSIVE BuildMapping(_, _)
BuildMapping(records, mapping) ==
    IF records = <<>> THEN mapping
    ELSE LET row == Head(records) IN
         BuildMapping(Tail(records),
                      IF Len(row) >= 2 /\ row[1] # <<>>
                      THEN DictSet(mapping, Strip(row[1]), Strip(row[2]))
                      ELSE mapping)

\* lines 160-165: what load_bank_mapping returns when nothing raises
load_bank_mapping(values) ==
    BuildMapping(IF values = <<>> THEN <<>> ELSE Tail(values), <<>>)

\* lines 259-262: the first item, in iteration order, whose key is in bank_desc
RECURSIVE FirstSubstring(_, _, _)
FirstSubstring(d, i, bank_desc) ==
    IF i > Len(d) THEN Unknown
    ELSE IF IsSubstring(d[i].k, bank_desc) THEN d[i].v
         ELSE FirstSubstring(d, i + 1, bank_desc)

\* mutant of Translate: the exact-key test is lost, only the scan remains
Translate_ScanOnly(d, bank_desc) == FirstSubstring(d, 1, bank_desc)

\* lines 254-262
Translate(d, bank_desc) ==
    IF DictHas(d, bank_desc) THEN DictGet(d, bank_desc)
    ELSE FirstSubstring(d, 1, bank_desc)

\* mutant of NewRows: the first name is skipped (new_names[1:])
NewRows_SkipFirst(new_names) ==
    [i \in 1..(Len(new_names) - 1) |-> <<new_names[i + 1], <<>>>>]

\* mutant of NewRows: the name is written to both columns
NewRows_NameTwice(new_names) ==
    [i \in 1..Len(new_names) |-> <<new_names[i], new_names[i]>>]

\* line 175
NewRows(new_names) == [i \in 1..Len(new_names) |-> <<new_names[i], <<>>>>]

\* list(unknown_names): the names in some order
Orderings(S) ==
    { f \in [1..Cardinality(S) -> S] : \A x \in S : \E i \in DOMAIN f : f[i] = x }

----------------------------------------------------------------------------
(* The ledger: sheet1.                                                     *)

\* gspread's get_all_records: a cell that int() accepts becomes a number,
\* any other cell stays the string it is
Numericise(text) ==
    IF IntRaises(text) THEN [t |-> "str", v |-> text]
    ELSE [t |-> "int", v |-> IntOf(text)]

\* the cells of a ledger row: status, vendor name, FB amount (text)
LedgerRows ==
    [ Status : {"Paid", "Pending"},
      Vendor : {VendorV, Unknown},
      FB : { <<"1", "0">>, <<"1", ",", "0">> } ]

GetAllRecords(sheet) ==
    [i \in 1..Len(sheet) |->
        [Status |-> sheet[i].Status, Vendor |-> sheet[i].Vendor,
         FB |-> Numericise(sheet[i].FB)]]

\* mutant of PaidOnly: the status filter is lost
PaidOnly_NoFilter(df) == df

\* line 237
RECURSIVE PaidOnly(_)
PaidOnly(df) ==
    IF df = <<>> THEN <<>>
    ELSE IF Head(df).Status = "Paid" THEN <<Head(df)>> \o PaidOnly(Tail(df))
         ELSE PaidOnly(Tail(df))

\* line 270: a cell of the amount column == bank_amt (a string never equals
\* a number)
AmountEquals(cell, bank_amt) == cell.t = "int" /\ cell.v = bank_amt

\* lines 268-273: not match.empty
HasMatch(paid, name, bank_amt) ==
    \E i \in 1..Len(paid) :
        paid[i].Vendor = name /\ AmountEquals(paid[i].FB, bank_amt)

\* rows of bank_df: what parse_docai_text can emit
BankRows ==
    [ Date : Dates,
      Desc : { <<"a", "b">>, <<"b">> },
      Amount : {10, 11} ]

DigitChar(n) ==
    CASE n = 0 -> "0" [] n = 1 -> "1" [] n = 2 -> "2" [] n = 3 -> "3"
      [] n = 4 -> "4" [] n = 5 -> "5" [] n = 6 -> "6" [] n = 7 -> "7"
      [] n = 8 -> "8" [] n = 9 -> "9"

RECURSIVE NatStr(_)
NatStr(n) ==
    IF n < 10 THEN <<DigitChar(n)>>
    ELSE NatStr(n \div 10) \o <<DigitChar(n % 10)>>

RECURSIVE Grouped(_)
Grouped(s) ==
    IF Len(s) <= 3 THEN s
    ELSE Grouped(SubSeq(s, 1, Len(s) - 3)) \o <<",">>
         \o SubSeq(s, Len(s) - 2, Len(s))

\* lines 278, 286: the yen sign and the amount with thousands separators
FormatYen(bank_amt) == <<Yen>> \o Grouped(NatStr(bank_amt))

----------------------------------------------------------------------------
(* The reconciliation run: lines 219-304 of the page script.               *)

\* lines 225-237: the ledger is read and holds the three columns
LoadSystemData ==
    /\ pc = "load_system"
    /\ \E sheet \in SeqsUpTo(LedgerRows, MaxLedger) :
         /\ sheet # <<>>
         /\ sys_df' = GetAllRecords(sheet)
         /\ paid_invoices' = PaidOnly(GetAllRecords(sheet))
    /\ pc' = "load_map"
    /\ UNCHANGED <<parseVars, bank_df, sheet_rows, mapping_dict, idx,
                   trans_name, matches, unmatched_bank, unknown_names,
                   button, append_ok, ui>>

\* lines 229-235: a column is missing (a sheet without records gives a frame
\* without columns): st.error, st.stop
MissingColumns ==
    /\ pc = "load_system"
    /\ ui' = Say("error: Missing columns in Google Sheet")
    /\ pc' = "stopped"
    /\ UNCHANGED <<parseVars, bank_df, sheet_rows, runVars>>

\* lines 238-240: reading the ledger raises
LoadSystemRaises ==
    /\ pc = "load_system"
    /\ ui' = Say("error: Error loading sheet")
    /\ pc' = "stopped"
    /\ UNCHANGED <<parseVars, bank_df, sheet_rows, runVars>>

\* line 243, lines 155-165: the alias table is read
LoadMap ==
    /\ pc = "load_map"
    /\ mapping_dict' = load_bank_mapping(sheet_rows)
    /\ pc' = "match"
    /\ UNCHANGED <<parseVars, bank_df, sheet_rows, sys_df, paid_invoices, idx,
                   trans_name, matches, unmatched_bank, unknown_names,
                   button, append_ok, ui>>

\* line 243, lines 166-167: reading the alias table raises; except: return {}
LoadMapRaises ==
    /\ pc = "load_map"
    /\ mapping_dict' = <<>>
    /\ pc' = "match"
    /\ UNCHANGED <<parseVars, bank_df, sheet_rows, sys_df, paid_invoices, idx,
                   trans_name, matches, unmatched_bank, unknown_names,
                   button, append_ok, ui>>

\* lines 273-280: matches after the row
MatchesAfter(matched, entry) ==
    IF matched THEN Append(matches, entry) ELSE matches

\* mutant of UnmatchedAfter: the else is lost, every row is listed as missing
UnmatchedAfter_NoElse(matched, entry) == Append(unmatched_bank, entry)

\* lines 281-288: unmatched_bank after the row
UnmatchedAfter(matched, entry) ==
    IF matched THEN unmatched_bank ELSE Append(unmatched_bank, entry)

\* lines 264-265: unknown_names after the row
UnknownsAfter(name, bank_desc) ==
    IF name = Unknown THEN unknown_names \cup {bank_desc} ELSE unknown_names

\* lines 250-288: the loop body on the next row of bank_df
MatchRow ==
    /\ pc = "match"
    /\ idx < Len(bank_df)
    /\ LET row == bank_df[idx + 1]
           bank_desc == row.Desc
           bank_amt == row.Amount
           name == Translate(mapping_dict, bank_desc)
           matched == HasMatch(paid_invoices, name, bank_amt)
           entry(status) ==
               [Date |-> row.Date, BankName |-> bank_desc, Name |-> name,
                Amount |-> FormatYen(bank_amt), Status |-> status]
       IN  /\ trans_name' = name
           /\ unknown_names' = UnknownsAfter(name, bank_desc)
           /\ matches' = MatchesAfter(matched, entry("Match"))
           /\ unmatched_bank' = UnmatchedAfter(matched, entry("Missing"))
    /\ idx' = idx + 1
    /\ UNCHANGED <<pc, parseVars, bank_df, sheet_rows, sys_df, paid_invoices,
                   mapping_dict, button, append_ok, ui>>

\* line 292: the loop is over and unknown_names is empty
DisplayNoUnknowns ==
    /\ pc = "match"
    /\ idx = Len(bank_df)
    /\ unknown_names = {}
    /\ pc' = "done"
    /\ UNCHANGED <<parseVars, bank_df, sheet_rows, runVars, ui>>

\* lines 292-294: the warning is shown and the button is not pressed
DisplayUnknowns ==
    /\ pc = "match"
    /\ idx = Len(bank_df)
    /\ unknown_names # {}
    /\ ui' = Say("warning: Found unknown names")
    /\ button' = FALSE
    /\ pc' = "done"
    /\ UNCHANGED <<parseVars, bank_df, sheet_rows, sys_df, paid_invoices,
                   mapping_dict, idx, trans_name, matches, unmatched_bank,
                   unknown_names, append_ok>>

\* lines 292-296, 170-177: the button is pressed and append_rows succeeds
AutoAddUnknowns ==
    /\ pc = "match"
    /\ idx = Len(bank_df)
    /\ unknown_names # {}
    /\ button' = TRUE
    /\ \E new_names \in Orderings(unknown_names) :
         sheet_rows' = sheet_rows \o NewRows(new_names)
    /\ append_ok' = "True"
    /\ ui' = Say("warning: Found unknown names") \o <<"success: Added">>
    /\ pc' = "done"
    /\ UNCHANGED <<parseVars, bank_df, sys_df, paid_invoices, mapping_dict,
                   idx, trans_name, matches, unmatched_bank, unknown_names>>

\* lines 292-296, 178-179: the button is pressed and the append raises;
\* except: return False, and the caller ignores the result
AutoAddRaises ==
    /\ pc = "match"
    /\ idx = Len(bank_df)
    /\ unknown_names # {}
    /\ button' = TRUE
    /\ append_ok' = "False"
    /\ ui' = Say("warning: Found unknown names") \o <<"success: Added">>
    /\ pc' = "done"
    /\ UNCHANGED <<parseVars, bank_df, sheet_rows, sys_df, paid_invoices,
                   mapping_dict, idx, trans_name, matches, unmatched_bank,
                   unknown_names>>

\* bank_df as the upload handler leaves it: at least one row
BankDfs == SeqsUpTo(BankRows, MaxTx) \ { <<>> }

\* The state after line 217: transactions were extracted from the upload.
Init ==
    /\ pc = "load_system"
    /\ line = NoLine
    /\ nlines = 0
    /\ bank_df \in BankDfs
    /\ transactions = bank_df
    /\ sheet_rows \in Sheets(MaxInitRows)
    /\ ui = <<"success: extracted">>
    /\ RunInit

Next ==
    \/ LoadSystemData
    \/ MissingColumns
    \/ LoadSystemRaises
    \/ LoadMap
    \/ LoadMapRaises
    \/ MatchRow
    \/ DisplayNoUnknowns
    \/ DisplayUnknowns
    \/ AutoAddUnknowns
    \/ AutoAddRaises

Spec == Init /\ [][Next]_vars

----------------------------------------------------------------------------
(* Resolution alone: any alias sheet of up to MaxRows rows, one description.*)

ResolveDescs == SeqsUpTo({"a", "b"}, 2) \ { <<>> }

OneLedger ==
    << [Status |-> "Paid", Vendor |-> VendorV, FB |-> <<"1", "0">>] >>

InitResolve ==
    /\ pc = "load_map"
    /\ line = NoLine
    /\ nlines = 0
    /\ \E d \in ResolveDescs :
         bank_df = << [Date |-> "2025/11/04", Desc |-> d, Amount |-> 10] >>
    /\ transactions = bank_df
    /\ sheet_rows \in Sheets(MaxRows)
    /\ ui = <<"success: extracted">>
    /\ sys_df = GetAllRecords(OneLedger)
    /\ paid_invoices = PaidOnly(GetAllRecords(OneLedger))
    /\ mapping_dict = <<>>
    /\ idx = 0
    /\ trans_name = <<>>
    /\ matches = <<>>
    /\ unmatched_bank = <<>>
    /\ unknown_names = {}
    /\ button = FALSE
    /\ append_ok = "none"

NextResolve ==
    \/ LoadMap
    \/ LoadMapRaises
    \/ MatchRow

SpecResolve == InitResolve /\ [][NextResolve]_vars

----------------------------------------------------------------------------
(* Runs one after the other: Streamlit executes the page script again on   *)
(* every interaction, with the uploaded file kept by the uploader.         *)

\* lines 200-217 once more: the same upload is extracted to the same
\* transactions, the page is drawn anew, and the run goes on to line 219 with
\* none of the previous run's values (lines 246-248 start the lists afresh);
\* the worksheet keeps what was appended
Rerun ==
    /\ pc \in {"done", "stopped"}
    /\ pc' = "load_system"
    /\ ui' = <<"success: extracted">>
    /\ sys_df' = <<>>
    /\ paid_invoices' = <<>>
    /\ mapping_dict' = <<>>
    /\ idx' = 0
    /\ trans_name' = <<>>
    /\ matches' = <<>>
    /\ unmatched_bank' = <<>>
    /\ unknown_names' = {}
    /\ button' = FALSE
    /\ append_ok' = "none"
    /\ UNCHANGED <<parseVars, bank_df, sheet_rows>>

\* every read of the alias table succeeds: LoadMapRaises is left out
NextRuns ==
    \/ LoadSystemData
    \/ MissingColumns
    \/ LoadSystemRaises
    \/ LoadMap
    \/ MatchRow
    \/ DisplayNoUnknowns
    \/ DisplayUnknowns
    \/ AutoAddUnknowns
    \/ AutoAddRaises
    \/ Rerun

SpecRuns == Init /\ [][NextRuns]_vars

----------------------------------------------------------------------------
(* Claims about the match loop, checked under Spec.                        *)

RowKey(row) == <<row.Date, row.Desc, FormatYen(row.Amount)>>
EntryKey(e) == <<e.Date, e.BankName, e.Amount>>

Occurrences(entries, key) ==
    Cardinality({i \in 1..Len(entries) : EntryKey(entries[i]) = key})

RowOccurrences(n, key) ==
    Cardinality({i \in 1..n : RowKey(bank_df[i]) = key})

InMatches(row, name) ==
    \E i \in 1..Len(matches) :
        EntryKey(matches[i]) = RowKey(row) /\ matches[i].Name = name

\* C1: every row of bank_df the loop has consumed is in exactly one of
\* matches and unmatched_bank, exactly once, so that after the loop
\* len(matches) + len(unmatched_bank) is the number of transactions.
C1_EveryTransactionInOneBucket ==
    /\ Len(matches) + Len(unmatched_bank) = idx
    /\ pc = "done" => idx = Len(bank_df)
    /\ \A i \in 1..idx :
         Occurrences(matches, RowKey(bank_df[i]))
           + Occurrences(unmatched_bank, RowKey(bank_df[i]))
         = RowOccurrences(idx, RowKey(bank_df[i]))

C1_Witness ==
    /\ pc = "done"
    /\ Len(bank_df) = MaxTx
    /\ matches # <<>>
    /\ unmatched_bank # <<>>

\* a ledger record with status Paid, this vendor name and, as its amount
\* cell, this number
PaidRowFor(name, amount) ==
    \E j \in 1..Len(sys_df) :
        /\ sys_df[j].Status = "Paid"
        /\ sys_df[j].Vendor = name
        /\ sys_df[j].FB.t = "int"
        /\ sys_df[j].FB.v = amount

\* C2: a consumed row is in matches if and only if the ledger holds a record
\* with status "Paid" whose vendor name is the row's resolved name and whose
\* amount is the row's amount; a record with another status, another vendor
\* or an amount one unit off gives no match.
C2_MatchIffPaidRow ==
    \A i \in 1..idx :
        LET name == Translate(mapping_dict, bank_df[i].Desc) IN
        InMatches(bank_df[i], name) <=> PaidRowFor(name, bank_df[i].Amount)

C2_Witness ==
    /\ pc = "done"
    /\ Len(bank_df) = 2
    /\ bank_df[1].Desc = bank_df[2].Desc
    /\ bank_df[2].Amount = bank_df[1].Amount + 1
    /\ Len(matches) = 1
    /\ Len(unmatched_bank) = 1
    /\ unmatched_bank[1].Name = matches[1].Name

\* C3: a row whose description resolves to "Unknown" is never in matches.
C3_UnknownNeverMatched ==
    \A i \in 1..Len(matches) : matches[i].Name # Unknown

\* the integer an amount cell stands for once separators and currency
\* glyphs are dropped
CoercesTo(cell, amount) ==
    IF cell.t = "int" THEN cell.v = amount
    ELSE /\ ~ IntRaises(Clean(cell.v))
         /\ IntOf(Clean(cell.v)) = amount

\* C10: a consumed row that resolved to a vendor is in matches whenever a
\* Paid ledger record has that vendor name and an amount cell that stands
\* for the row's amount, also when the cell is written with separators
\* ("1,0" for 10).
C10_FormattedAmountMatches ==
    \A i \in 1..idx :
        LET name == Translate(mapping_dict, bank_df[i].Desc) IN
        (name # Unknown /\ \E j \in 1..Len(sys_df) :
            /\ sys_df[j].Status = "Paid"
            /\ sys_df[j].Vendor = name
            /\ CoercesTo(sys_df[j].FB, bank_df[i].Amount))
        => InMatches(bank_df[i], name)

----------------------------------------------------------------------------
(* Claims about alias resolution, checked under SpecResolve.               *)

SetMin(S) == CHOOSE x \in S : \A y \in S : x <= y
SetMax(S) == CHOOSE x \in S : \A y \in S : x >= y

\* the rows of the worksheet that load_bank_mapping takes an item from
ValidRows ==
    {r \in 2..Len(sheet_rows) :
        Len(sheet_rows[r]) >= 2 /\ sheet_rows[r][1] # <<>>}

KeyOf(r) == Strip(sheet_rows[r][1])
NameOf(r) == Strip(sheet_rows[r][2])

\* the dict holds each key of the table once, in the order of the keys'
\* first rows, with the name of the key's last row
ReflectsSheet(d) ==
    /\ \A i, j \in 1..Len(d) : d[i].k = d[j].k => i = j
    /\ {d[i].k : i \in 1..Len(d)} = {KeyOf(r) : r \in ValidRows}
    /\ \A i \in 1..Len(d) :
         LET rs == {r \in ValidRows : KeyOf(r) = d[i].k} IN
         /\ d[i].v = NameOf(SetMax(rs))
         /\ \A j \in 1..Len(d) :
              i < j =>
                SetMin(rs) < SetMin({r \in ValidRows : KeyOf(r) = d[j].k})

\* C4: once a description is resolved, the name is the one stored under the
\* key equal to the description if the table has that key; otherwise the
\* name of the first key, in insertion order, that is a substring of the
\* description; otherwise "Unknown".  The table is the dict the load
\* returned: the keys of the sheet in insertion order, or the empty dict.
C4_Resolution ==
    idx = 1 =>
      LET d == bank_df[1].Desc
          m == mapping_dict
          exact == {i \in 1..Len(m) : m[i].k = d}
          sub == {i \in 1..Len(m) : IsSubstring(m[i].k, d)}
      IN  /\ m = <<>> \/ ReflectsSheet(m)
          /\ exact # {} => \A i \in exact : trans_name = m[i].v
          /\ (exact = {} /\ sub # {}) => trans_name = m[SetMin(sub)].v
          /\ sub = {} => trans_name = Unknown

C4_Witness ==
    /\ idx = 1
    /\ Len(mapping_dict) >= 2
    /\ \E i \in 2..Len(mapping_dict) :
         /\ mapping_dict[i].k = bank_df[1].Desc
         /\ IsSubstring(mapping_dict[1].k, bank_df[1].Desc)
         /\ mapping_dict[1].v # mapping_dict[i].v
         /\ trans_name = mapping_dict[i].v

\* the rows whose key is in the description
MatchingRows(d) == {r \in ValidRows : IsSubstring(KeyOf(r), d)}

\* C5 as stated: when rows of the table match the description, the name
\* returned is the name of the earliest of them.
C5_EarlierRowWins ==
    (idx = 1 /\ mapping_dict # <<>>) =>
      LET M == MatchingRows(bank_df[1].Desc) IN
      M # {} => trans_name = NameOf(SetMin(M))

\* C5 as amended: the name returned is a function of the table and the
\* description.  If rows have the description itself as their key, it is the
\* name of the last of them; otherwise, if rows match, it is the name of the
\* last row that has the key of the earliest matching row; otherwise it is
\* "Unknown".
C5_Resolution ==
    (idx = 1 /\ mapping_dict # <<>>) =>
      LET d == bank_df[1].Desc
          M == MatchingRows(d)
          E == {r \in ValidRows : KeyOf(r) = d}
      IN  IF E # {} THEN trans_name = NameOf(SetMax(E))
          ELSE IF M # {}
               THEN trans_name =
                      NameOf(SetMax({r \in ValidRows :
                                        KeyOf(r) = KeyOf(SetMin(M))}))
               ELSE trans_name = Unknown

C5_Witness ==
    /\ idx = 1
    /\ mapping_dict # <<>>
    /\ LET M == MatchingRows(bank_df[1].Desc) IN
       /\ Cardinality(M) >= 2
       /\ \A r \in M : KeyOf(r) # bank_df[1].Desc
       /\ \E r \in M : KeyOf(r) # KeyOf(SetMin(M)) /\ NameOf(r) # NameOf(SetMin(M))
       /\ trans_name = NameOf(SetMin(M))

----------------------------------------------------------------------------
(* Claims about the unknown names and the alias sheet, checked under Spec. *)

\* the descriptions of the consumed rows that resolved to "Unknown"
UnmappedDescs ==
    {bank_df[i].Desc : i \in {j \in 1..idx :
        Translate(mapping_dict, bank_df[j].Desc) = Unknown}}

\* the rows a step has put below the rows the sheet had
Added(before, after) == SubSeq(after, Len(before) + 1, Len(after))

RowsFor(rows, name) == {i \in 1..Len(rows) : rows[i][1] = name}

\* C6: however many consumed rows share an unmapped description, the set
\* unknown_names holds that description as one entry, and an append that the
\* operator confirmed and that was written puts exactly one row for it on the
\* sheet.
C6_OneEntryOneRow ==
    /\ [](unknown_names = UnmappedDescs)
    /\ [][(append_ok = "none" /\ append_ok' = "True") =>
            LET added == Added(sheet_rows, sheet_rows') IN
            /\ Len(added) = Cardinality(UnmappedDescs)
            /\ \A name \in UnmappedDescs :
                 Cardinality(RowsFor(added, name)) = 1]_vars

C6_Witness ==
    /\ pc = "done"
    /\ append_ok = "True"
    /\ Len(bank_df) = 2
    /\ bank_df[1].Desc = bank_df[2].Desc
    /\ unknown_names = {bank_df[1].Desc}
    /\ Len(sheet_rows) = 2
    /\ sheet_rows[2] = <<bank_df[1].Desc, <<>>>>

\* C7: the sheet changes only in a step in which the button was pressed and
\* the append was written; that step keeps every row the sheet had, in place,
\* and puts below them one row per name of unknown_names, the second cell
\* blank; a run that ends without the button pressed leaves the sheet as it
\* was.
C7_AppendOnly ==
    [][/\ sheet_rows' # sheet_rows => (button' /\ append_ok' = "True")
       /\ (append_ok = "none" /\ append_ok' = "True") =>
            LET added == Added(sheet_rows, sheet_rows') IN
            /\ Len(sheet_rows') >= Len(sheet_rows)
            /\ SubSeq(sheet_rows', 1, Len(sheet_rows)) = sheet_rows
            /\ Len(added) = Cardinality(unknown_names)
            /\ \A name \in unknown_names : RowsFor(added, name) # {}
            /\ \A i \in 1..Len(added) :
                 /\ Len(added[i]) = 2
                 /\ added[i][1] \in unknown_names
                 /\ added[i][2] = <<>>
       /\ (pc # "done" /\ pc' = "done" /\ ~ button') =>
            sheet_rows' = sheet_rows]_vars

C7_Witness ==
    /\ pc = "done"
    /\ button
    /\ append_ok = "True"
    /\ Cardinality(unknown_names) = 2
    /\ Len(sheet_rows) = 4
    /\ sheet_rows[2] \in Rows

----------------------------------------------------------------------------
(* Claims about parse_docai_text, checked under SpecParse.                 *)

\* C8: a line on which a parsing step fails is skipped: the loop goes on to
\* the next line and the transactions of the other lines are returned.
C8_FailingLineIsSkipped ==
    (nlines > 0 /\ ParseLine(line).kind = "raise") =>
        /\ pc \in {"line_done", "parsing", "parsed", "load_system"}
        /\ pc \in {"parsed", "load_system"} => bank_df = transactions

\* the positions of the tokens of a line that pass the numeric test
NumericPositions(parts) ==
    {i \in 1..Len(parts) : LooksNumeric(Clean(parts[i]))}

\* C9: an iteration appends a transaction only if the line has a date and at
\* least two numeric tokens and the second-to-last of them is greater than 0;
\* the Amount appended is that value.
C9_AmountIsSecondToLast ==
    [][(pc = "parsing" /\ transactions' # transactions) =>
         /\ line'.date # NoDate
         /\ Cardinality(NumericPositions(line'.parts)) >= 2
         /\ \E second \in 1..Len(line'.parts) :
              /\ LooksNumeric(Clean(line'.parts[second]))
              /\ Cardinality({i \in NumericPositions(line'.parts) :
                                 i > second}) = 1
              /\ IntOf(Clean(line'.parts[second])) > 0
              /\ Len(transactions') = Len(transactions) + 1
              /\ SubSeq(transactions', 1, Len(transactions)) = transactions
              /\ transactions'[Len(transactions')].Amount =
                    IntOf(Clean(line'.parts[second]))]_vars

C9_Witness ==
    /\ pc = "line_done"
    /\ nlines = 2
    /\ Len(transactions) = 2
    /\ ParseLine(line).kind = "emit"
    /\ Cardinality(NumericPositions(line.parts)) = 2
    /\ line.parts[Len(line.parts)] = <<"0">>
    /\ transactions[1].Amount = 7
    /\ transactions[2].Amount = 10

\* the positions collected by the scan of a line, in the order collected
CollectedIndices(parts) ==
    ScanTokens(parts, Len(parts), <<>>, <<>>).valid_indices

----------------------------------------------------------------------------
(* Claims about failures of the alias store, checked under Spec.           *)

\* the messages st.error shows
ErrorMessages ==
    {"error: Google AI Failed", "error: could not extract valid transactions",
     "error: Missing columns in Google Sheet", "error: Error loading sheet"}

\* C11: a step that fails is reported to the operator: when the read of the
\* alias table raises (on a table that holds entries, so that the step is
\* not also a successful read) or the append to it raises, the step shows an
\* error message and the run stops instead of going on to the match loop or
\* to a success message.
C11_FailureIsReported ==
    [][(\/ LoadMapRaises /\ load_bank_mapping(sheet_rows) # <<>>
        \/ AutoAddRaises) =>
         /\ Len(ui') > Len(ui)
         /\ ui'[Len(ui')] \in ErrorMessages
         /\ pc' = "stopped"]_vars

----------------------------------------------------------------------------
(* Claims about runs one after the other, checked under SpecRuns.          *)

\* the alias store holds a row with this description and a blank name
HoldsBlankRow(rows, name) ==
    \E i \in 1..Len(rows) : rows[i] = <<name, <<>>>>

\* C13: no description is appended to the alias store more than once: in a
\* run that finds the store holding a row with a description and a blank
\* name, the description is resolved to that name, not to "Unknown", so it
\* is not in the run's set of unknown names and no append writes it again.
C13_AppendedOnce ==
    pc = "match" =>
        \A name \in unknown_names : ~ HoldsBlankRow(sheet_rows, name)

====
